---- MODULE Spec2Model ----
(***************************************************************************)
(* book-splitter: PDF outline parsing and page-range resolution            *)
(* (utils/pdfProcessor.ts), the chapter list's selection state             *)
(* (components/ChapterList.tsx) and the export planner and renderer        *)
(* (App.tsx handleExport, utils/filenameUtils.ts).                         *)
(*                                                                         *)
(* A chapter tree is a function from node ids to node records.  A node id  *)
(* is the sequence of sibling indices of the id string the code builds:    *)
(* "chapter-0-1" is <<0, 1>>.  An undefined number (startPage of an EPUB   *)
(* node) is 0 and an undefined or empty string is <<>>: the code only ever *)
(* tests these values for truthiness or reads them through `|| 0`.         *)
(***************************************************************************)
EXTENDS Integers, Sequences, FiniteSets, TLC

\* Bounds of the explored outlines.
MaxNodes == 4
MaxDepth == 3

\* Page numbers the outline destinations resolve to, and page counts.
StartPages == {1, 10, 20}
PageCounts == {20, 30}

\* `ch.startPage || Infinity` (App.tsx:159): larger than every page number.
Infinity == 1000000

VARIABLES
  pc,               \* parsing, resolved, resolvedAgain, ready, exported,
                    \* exportedAgain, failed; upload (no file chosen);
                    \* loadStart, loadBatch, loaded (EPUB content loading);
                    \* openEpub, navDone (EPUB navigation); anchors
  fileType,         \* 'pdf' | 'epub'
  totalPages,       \* pdfDoc.numPages
  chapters,         \* the chapter tree
  selectedChapters, \* ChapterList state
  mergedChapters,   \* ChapterList state
  mergeMode,        \* ChapterList state
  exportTasks,      \* handleExport: the task list of the export that just ran
  processed,        \* handleExport: the processed set of that export
  outputs,          \* handleExport: the files written (downloaded or zipped)
  file,             \* App state: the selected file, 0 for null
  isProcessing,     \* App state
  error,            \* App state: <<>> for null
  inFlight,         \* the handleFileSelect / handleExport calls not yet settled
  leafHrefs,        \* extractEpubChapters: the resource path of each leaf
  zipFiles,         \* the resource paths the archive has a file for
  batchIndex,       \* extractEpubChapters: i of the batch loop
  taskState,        \* the batch's callbacks: idle, reading, done
  fileCache,        \* extractEpubChapters: the paths with cached text
  fileReads,        \* how often chapterFile.async('text') ran for each path
  leafContent,      \* the leaves whose content has been assigned
  now,              \* Date.now(), ms since extractEpubChapters began loading
  lastUpdateTime,   \* extractEpubChapters
  progressCalls,    \* the onProgress calls made so far
  package,          \* the EPUB's navigation: navHref, ncxHref and the documents
  parserCalls,      \* extractEpubChapters: the parseNav / parseNcx calls made
  resource,         \* the body of a content document, as a list of elements
  fragments         \* extractContentByAnchor's result for each anchor asked

vars == <<pc, fileType, totalPages, chapters, selectedChapters,
          mergedChapters, mergeMode, exportTasks, processed, outputs,
          file, isProcessing, error, inFlight,
          leafHrefs, zipFiles, batchIndex, taskState, fileCache, fileReads,
          leafContent, now, lastUpdateTime, progressCalls,
          package, parserCalls, resource, fragments>>

----------------------------------------------------------------------------
\* Sequence helpers.

RECURSIVE SeqToSet(_)
SeqToSet(s) == IF s = <<>> THEN {} ELSE {Head(s)} \cup SeqToSet(Tail(s))

RECURSIVE FilterSeq(_, _)
\* Array.prototype.filter with the predicate "is a member of keep".
FilterSeq(s, keep) ==
  IF s = <<>> THEN <<>>
  ELSE (IF Head(s) \in keep THEN <<Head(s)>> ELSE <<>>) \o FilterSeq(Tail(s), keep)

IndexOf(s, x) == CHOOSE i \in 1..Len(s) : s[i] = x

Min(S) == CHOOSE x \in S : \A y \in S : x <= y

----------------------------------------------------------------------------
\* Tree structure.

Nodes(T) == DOMAIN T

NumChildren(T, p) ==
  Cardinality({q \in Nodes(T) : Len(q) = Len(p) + 1 /\ SubSeq(q, 1, Len(p)) = p})

\* chapter.children, in sibling order; ChildIds(T, <<>>) is the top level.
ChildIds(T, p) == [i \in 1..NumChildren(T, p) |-> Append(p, i - 1)]

\* chapter.children && chapter.children.length > 0
hasChildren(T, p) == NumChildren(T, p) > 0

IsLeaf(T, p) == ~hasChildren(T, p)

Letters == <<"A", "B", "C", "D", "E", "F", "G", "H">>
DigitChars == <<"0", "1", "2", "3", "4", "5", "6", "7", "8", "9">>

RECURSIVE TitleOf(_)
\* item.title of the outline entry at position p: "A", "A1", "A1/1", ...
TitleOf(p) ==
  IF Len(p) = 1 THEN <<Letters[p[1] + 1]>>
  ELSE TitleOf(SubSeq(p, 1, Len(p) - 1))
         \o (IF Len(p) > 2 THEN <<"/">> ELSE <<>>)
         \o <<DigitChars[p[Len(p)] + 2]>>

\* The chapter object parseOutlineItem builds: endPage starts as startPage.
NewPdfChapter(id, startPage) ==
  [id |-> id, intro |-> FALSE, title |-> TitleOf(id),
   startPage |-> startPage, endPage |-> startPage, content |-> <<>>]

\* The chapter object parseNavPoint / parseNavList build: no pages, no content.
NewEpubChapter(id) ==
  [id |-> id, intro |-> FALSE, title |-> TitleOf(id),
   startPage |-> 0, endPage |-> 0, content |-> <<>>]

\* The positions at which the next outline entry can appear in a depth-first
\* read of the outline: a new last child of the root or of a node on the
\* rightmost path.
RECURSIVE RightmostPath(_, _)
RightmostPath(T, p) ==
  {p} \cup (IF hasChildren(T, p)
              THEN RightmostPath(T, Append(p, NumChildren(T, p) - 1))
              ELSE {})

----------------------------------------------------------------------------
\* Range resolution (calculateEndPages).

RECURSIVE collectLeaves(_, _)
collectLeaves(T, items) ==
  IF items = <<>> THEN <<>>
  ELSE (IF IsLeaf(T, Head(items))
          THEN <<Head(items)>>
          ELSE collectLeaves(T, ChildIds(T, Head(items))))
       \o collectLeaves(T, Tail(items))

RECURSIVE InsertByStartPage(_, _)
\* x goes after every element whose startPage is <= its own: Array.prototype.sort
\* is stable, and the comparator is a.startPage - b.startPage.
InsertByStartPage(sorted, x) ==
  IF sorted = <<>> THEN <<x>>
  ELSE IF Head(sorted).startPage <= x.startPage
         THEN <<Head(sorted)>> \o InsertByStartPage(Tail(sorted), x)
         ELSE <<x>> \o sorted

RECURSIVE SortFrom(_, _)
SortFrom(s, acc) ==
  IF s = <<>> THEN acc
  ELSE SortFrom(Tail(s), InsertByStartPage(acc, Head(s)))

\* items.sort((a, b) => (a.startPage || 0) - (b.startPage || 0)) on a sequence
\* of chapter objects.
sortChapters(s) == SortFrom(s, <<>>)

\* The chapter objects of a sequence of ids.
ChaptersOf(T, ids) == [i \in 1..Len(ids) |-> T[ids[i]]]

IdsOf(chs) == [i \in 1..Len(chs) |-> chs[i].id]

\* leafChapters.sort((a, b) => a.startPage - b.startPage), as ids.
sortByStartPage(T, ids) == IdsOf(sortChapters(ChaptersOf(T, ids)))

\* The sorted leaf list of calculateEndPages.
leafChapters(T) == sortByStartPage(T, collectLeaves(T, ChildIds(T, <<>>)))

LeafEndPageFromNextEnd(T, leaves, i, total) ==
  IF i < Len(leaves) THEN T[leaves[i + 1]].endPage - 1 ELSE total

LeafEndPageOverlap(T, leaves, i, total) ==
  IF i < Len(leaves) THEN T[leaves[i + 1]].startPage ELSE total

LeafEndPageNoLast(T, leaves, i, total) ==
  IF i < Len(leaves) THEN T[leaves[i + 1]].startPage - 1 ELSE T[leaves[i]].startPage

\* The loop body of calculateEndPages for the i-th sorted leaf.
LeafEndPage(T, leaves, i, total) ==
  IF i < Len(leaves) THEN T[leaves[i + 1]].startPage - 1 ELSE total

\* The tree after the leaf loop of calculateEndPages.
setLeafEndPages(T, total) ==
  LET leaves == leafChapters(T) IN
  [p \in Nodes(T) |->
     IF IsLeaf(T, p)
       THEN [T[p] EXCEPT !.endPage = LeafEndPage(T, leaves, IndexOf(leaves, p), total)]
       ELSE T[p]]

RECURSIVE FirstDescendantEndPage(_, _)
FirstDescendantEndPage(T, ch) ==
  IF IsLeaf(T, ch) THEN T[ch].endPage
  ELSE FirstDescendantEndPage(T, Append(ch, 0))

RECURSIVE getLastDescendantEndPage(_, _)
getLastDescendantEndPage(T, ch) ==
  IF IsLeaf(T, ch) THEN T[ch].endPage
  ELSE getLastDescendantEndPage(T, Append(ch, NumChildren(T, ch) - 1))

\* The tree after setParentEndPages: leaves keep their endPage, and the value
\* a parent gets is read from a leaf, so the post-order of the code's walk
\* does not show in the result.
setParentEndPages(T) ==
  [p \in Nodes(T) |->
     IF hasChildren(T, p)
       THEN [T[p] EXCEPT !.endPage = getLastDescendantEndPage(T, p)]
       ELSE T[p]]

calculateEndPages(T, total) == setParentEndPages(setLeafEndPages(T, total))

----------------------------------------------------------------------------
\* File names (utils/filenameUtils.ts).  A string is a sequence of characters.

MaxFilenameLen == 200

IllegalChars == {"/", "\\", "<", ">", ":", "\"", "|", "?", "*", "\t", "\n"}

RECURSIVE DropLeading(_, _)
DropLeading(s, c) ==
  IF s # <<>> /\ Head(s) = c THEN DropLeading(Tail(s), c) ELSE s

RECURSIVE DropTrailing(_, _)
DropTrailing(s, c) ==
  IF s # <<>> /\ s[Len(s)] = c THEN DropTrailing(SubSeq(s, 1, Len(s) - 1), c) ELSE s

sanitizeFilename(filename) ==
  LET replaced == [i \in 1..Len(filename) |->
                     IF filename[i] \in IllegalChars THEN "_" ELSE filename[i]]
      trimmed  == DropTrailing(DropLeading(replaced, " "), " ")
      undotted == DropTrailing(DropLeading(trimmed, "."), ".")
  IN  SubSeq(undotted, 1, IF Len(undotted) < MaxFilenameLen
                            THEN Len(undotted) ELSE MaxFilenameLen)

RECURSIVE NumberToString(_)
\* String(n) for n >= 0.
NumberToString(n) ==
  IF n < 10 THEN <<DigitChars[n + 1]>>
  ELSE NumberToString(n \div 10) \o <<DigitChars[(n % 10) + 1]>>

padStartNone(s, targetLength, c) == s

\* String.prototype.padStart(targetLength, c) with a one-character pad.
RECURSIVE padStart(_, _, _)
padStart(s, targetLength, c) ==
  IF Len(s) >= targetLength THEN s ELSE padStart(<<c>> \o s, targetLength, c)

RECURSIVE JoinTitles(_, _)
\* titleParts.join('_')
JoinTitles(parts, sep) ==
  IF parts = <<>> THEN <<>>
  ELSE IF Len(parts) = 1 THEN Head(parts)
  ELSE Head(parts) \o <<sep>> \o JoinTitles(Tail(parts), sep)

IndexPrefixZeroBased(index) == padStart(NumberToString(index), 2, "0")

\* const indexPrefix = String(index + 1).padStart(2, '0')
IndexPrefix(index) == padStart(NumberToString(index + 1), 2, "0")

buildHierarchicalFilename(index, parentTitles, currentTitle) ==
  LET all        == Append(parentTitles, currentTitle)
      titleParts == [i \in 1..Len(all) |-> sanitizeFilename(all[i])]
  IN  IndexPrefix(index) \o <<"_">> \o JoinTitles(titleParts, "_")
        \o <<".", "p", "d", "f">>

----------------------------------------------------------------------------
\* Chapter list (components/ChapterList.tsx).

RECURSIVE getAllChapterIds(_, _)
\* Pre-order list of the ids of a forest.
getAllChapterIds(T, items) ==
  IF items = <<>> THEN <<>>
  ELSE <<Head(items)>> \o getAllChapterIds(T, ChildIds(T, Head(items)))
         \o getAllChapterIds(T, Tail(items))

allChapterIds(T) == getAllChapterIds(T, ChildIds(T, <<>>))

\* getChapterAndChildrenIds(chapter) of handleToggleChapter.
getChapterAndChildrenIds(T, ch) ==
  SeqToSet(getAllChapterIds(T, <<ch>>))

\* hasSelectedChildren of renderChapter: some descendant is selected.
hasSelectedChildren(T, sel, ch) ==
  hasChildren(T, ch) /\ (getChapterAndChildrenIds(T, ch) \ {ch}) \cap sel # {}

isAllSelected(T, sel) ==
  Cardinality(sel) = Len(allChapterIds(T)) /\ Len(allChapterIds(T)) > 0

\* findSelectedChapters(chapters) of ChapterList.handleExport: the selected
\* chapters in pre-order.
findSelectedChapters(T, sel) == FilterSeq(allChapterIds(T), sel)

----------------------------------------------------------------------------
\* Export planning (App.tsx handleExport, lines 78-289).

RECURSIVE getAllDescendants(_, _)
\* getAllDescendants(parent): every child followed by its own descendants.
getAllDescendants(T, items) ==
  IF items = <<>> THEN <<>>
  ELSE <<Head(items)>> \o getAllDescendants(T, ChildIds(T, Head(items)))
         \o getAllDescendants(T, Tail(items))

allDescendants(T, ch) == getAllDescendants(T, ChildIds(T, ch))

\* ch.startPage || Infinity
StartOrInfinity(ch) == IF ch.startPage = 0 THEN Infinity ELSE ch.startPage

\* Math.min(...chs.map(ch => ch.startPage || Infinity)); Math.min() is Infinity.
firstChildStartPage(T, ids) ==
  IF ids = <<>> THEN Infinity
  ELSE Min({StartOrInfinity(T[ids[i]]) : i \in 1..Len(ids)})

\* The synthetic chapter for a PDF parent's own pages.
PdfIntro(ch, firstStart) ==
  [id |-> ch.id, intro |-> TRUE, title |-> ch.title,
   startPage |-> ch.startPage, endPage |-> firstStart - 1, content |-> <<>>]

\* The synthetic chapter for an EPUB parent's own content.
EpubIntro(ch) ==
  [id |-> ch.id, intro |-> TRUE, title |-> ch.title,
   startPage |-> 0, endPage |-> 0, content |-> ch.content]

ExportTask(name, chs, parentTitles, chapterId) ==
  [name |-> name, chapters |-> chs, parentTitles |-> parentTitles,
   chapterId |-> chapterId]

\* name and chapterId of the whole-tree merge task: '合并章节' and 'merged'.
MergedName == <<"merged chapters">>
MergedId == <<>>

MergeIntroNone(T, ft, ch, childrenToMerge) == <<>>

\* The intro units of the merge branch of processChapter (lines 156-180).
MergeIntro(T, ft, ch, childrenToMerge) ==
  IF ft = "pdf" /\ T[ch].startPage # 0 /\ T[ch].endPage # 0
    THEN (IF T[ch].startPage < firstChildStartPage(T, childrenToMerge)
            THEN <<PdfIntro(T[ch], firstChildStartPage(T, childrenToMerge))>>
            ELSE <<>>)
  ELSE IF ft = "epub" /\ T[ch].content # <<>>
    THEN <<EpubIntro(T[ch])>>
  ELSE <<>>

\* childrenToMerge.sort(...) of the merge branch (lines 183-188).
SortForTask(ft, chs) == IF ft = "pdf" THEN sortChapters(chs) ELSE chs

\* processChapter, the merge branch (lines 135-200).
processMerged(T, ft, sel, ch, parentTitles, st) ==
  LET childrenToMerge == FilterSeq(allDescendants(T, ch), sel) IN
  IF Len(childrenToMerge) > 0
    THEN [tasks |-> Append(st.tasks,
                      ExportTask(T[ch].title,
                                 MergeIntro(T, ft, ch, childrenToMerge)
                                   \o SortForTask(ft, ChaptersOf(T, childrenToMerge)),
                                 parentTitles, ch)),
          processed |-> st.processed \cup {ch} \cup SeqToSet(childrenToMerge)]
    ELSE st

hasIndependentContentLoose(T, ft, ch, selectedChildren) ==
  IF ft = "pdf" /\ T[ch].startPage # 0 /\ T[ch].endPage # 0
       /\ Len(selectedChildren) > 0
    THEN T[ch].startPage <= firstChildStartPage(T, selectedChildren)
  ELSE IF ft = "epub" /\ T[ch].content # <<>>
    THEN TRUE
  ELSE FALSE

\* hasIndependentContent of the selected-parent branch (lines 221-231).
hasIndependentContent(T, ft, ch, selectedChildren) ==
  IF ft = "pdf" /\ T[ch].startPage # 0 /\ T[ch].endPage # 0
       /\ Len(selectedChildren) > 0
    THEN T[ch].startPage < firstChildStartPage(T, selectedChildren)
  ELSE IF ft = "epub" /\ T[ch].content # <<>>
    THEN TRUE
  ELSE FALSE

\* processChapter, the selected-parent branch (lines 203-264).
processParent(T, ft, sel, ch, parentTitles, st) ==
  LET selectedChildren == FilterSeq(allDescendants(T, ch), sel) IN
  IF hasIndependentContent(T, ft, ch, selectedChildren)
    THEN [tasks |->
            IF ft = "pdf" /\ T[ch].startPage # 0 /\ T[ch].endPage # 0
              THEN Append(st.tasks,
                     ExportTask(T[ch].title,
                                <<PdfIntro(T[ch], firstChildStartPage(T, selectedChildren))>>,
                                parentTitles, ch))
            ELSE IF ft = "epub" /\ T[ch].content # <<>>
              THEN Append(st.tasks,
                     ExportTask(T[ch].title, <<EpubIntro(T[ch])>>, parentTitles, ch))
            ELSE st.tasks,
          processed |-> st.processed \cup {ch}]
    ELSE st

\* processChapter, the selected-leaf branch (lines 265-274).
processLeaf(T, ch, parentTitles, st) ==
  [tasks |-> Append(st.tasks, ExportTask(T[ch].title, <<T[ch]>>, parentTitles, ch)),
   processed |-> st.processed \cup {ch}]

\* processChapter(chapter, parentTitles) on the planner state
\* st = [tasks, processed].
processChapter(T, ft, sel, merged, ch, parentTitles, st) ==
  IF ch \in st.processed THEN st
  ELSE IF ch \in merged /\ hasChildren(T, ch)
    THEN processMerged(T, ft, sel, ch, parentTitles, st)
  ELSE IF ch \in sel
    THEN (IF hasChildren(T, ch)
            THEN processParent(T, ft, sel, ch, parentTitles, st)
            ELSE processLeaf(T, ch, parentTitles, st))
  ELSE st

RECURSIVE traverseChapters(_, _, _, _, _, _, _)
\* traverseChapters(chs, currentParentTitles): processChapter on a node, then
\* on its children, then on its next sibling.
traverseChapters(T, ft, sel, merged, chs, currentParentTitles, st) ==
  IF chs = <<>> THEN st
  ELSE LET ch  == Head(chs)
           st1 == processChapter(T, ft, sel, merged, ch, currentParentTitles, st)
           st2 == traverseChapters(T, ft, sel, merged, ChildIds(T, ch),
                                   Append(currentParentTitles, T[ch].title), st1)
       IN  traverseChapters(T, ft, sel, merged, Tail(chs), currentParentTitles, st2)

\* isFullSelection (line 98): selectedChapters is the list ChapterList passes.
isFullSelection(T, selectedList) == Len(selectedList) = Len(allChapterIds(T))

planExportKeepingProcessed(T, ft, sel, merged, mode) ==
  LET selectedList == findSelectedChapters(T, sel) IN
  IF isFullSelection(T, selectedList) /\ mode = "merge"
    THEN [tasks |-> <<ExportTask(MergedName,
                                 SortForTask(ft, ChaptersOf(T, selectedList)),
                                 <<>>, MergedId)>>,
          processed |-> {}]
    ELSE traverseChapters(T, ft, sel, merged, ChildIds(T, <<>>), <<>>,
                          [tasks |-> <<>>, processed |-> processed])

\* The planner: the task list and the processed set (lines 97-289).
planExport(T, ft, sel, merged, mode) ==
  LET selectedList == findSelectedChapters(T, sel) IN
  IF isFullSelection(T, selectedList) /\ mode = "merge"
    THEN [tasks |-> <<ExportTask(MergedName,
                                 SortForTask(ft, ChaptersOf(T, selectedList)),
                                 <<>>, MergedId)>>,
          processed |-> {}]
    ELSE traverseChapters(T, ft, sel, merged, ChildIds(T, <<>>), <<>>,
                          [tasks |-> <<>>, processed |-> {}])

----------------------------------------------------------------------------
\* Export rendering (App.tsx handleExport, lines 291-423).

\* chapter.startPage && chapter.endPage
HasPages(ch) == ch.startPage # 0 /\ ch.endPage # 0

\* chapter.content (truthy)
HasContent(ch) == ch.content # <<>>

RECURSIVE WithPages(_)
\* The chapters of a sequence that pass `if (chapter.startPage && chapter.endPage)`.
WithPages(chs) ==
  IF chs = <<>> THEN <<>>
  ELSE (IF HasPages(Head(chs)) THEN <<Head(chs)>> ELSE <<>>) \o WithPages(Tail(chs))

RECURSIVE WithContent(_)
\* task.chapters.filter(ch => ch.content)
WithContent(chs) ==
  IF chs = <<>> THEN <<>>
  ELSE (IF HasContent(Head(chs)) THEN <<Head(chs)>> ELSE <<>>) \o WithContent(Tail(chs))

\* The 1-based source pages extractPdfPages / copyPages copy for a chapter:
\* Array.from({length: endPage - startPage + 1}, (_, j) => startPage - 1 + j).
CopiedPages(ch) == [j \in 1..(ch.endPage - ch.startPage + 1) |-> ch.startPage - 1 + j]

\* const sortedTaskChapters = task.chapters.sort(...) sorts the task's own
\* array: the task list after the zip loop of a PDF export.
SortedInPlace(tasks) ==
  [i \in 1..Len(tasks) |->
     IF Len(tasks[i].chapters) = 1 THEN tasks[i]
     ELSE [tasks[i] EXCEPT !.chapters = sortChapters(tasks[i].chapters)]]

File(filename, chs) == [filename |-> filename, chapters |-> chs]

NoOutput == [kind |-> "none", files |-> <<>>]

IsSingleDownload(tasks) == Len(tasks) = 1 /\ Len(tasks[1].chapters) = 1

RECURSIVE ZipPdf(_, _)
\* The zip loop of a PDF export from task i on: a single-chapter task writes a
\* file only when its chapter has pages; a merge task always writes its file.
ZipPdf(tasks, i) ==
  IF i > Len(tasks) THEN <<>>
  ELSE LET task     == tasks[i]
           filename == buildHierarchicalFilename(i - 1, task.parentTitles, task.name)
       IN  (IF Len(task.chapters) = 1
              THEN (IF HasPages(task.chapters[1])
                      THEN <<File(filename, task.chapters)>> ELSE <<>>)
              ELSE <<File(filename,
                          WithPages(sortChapters(task.chapters)))>>)
           \o ZipPdf(tasks, i + 1)

RECURSIVE ZipEpub(_, _)
\* The zip loop of an EPUB export from task i on: a task without content is
\* skipped with a warning.
ZipEpub(tasks, i) ==
  IF i > Len(tasks) THEN <<>>
  ELSE LET task     == tasks[i]
           filename == buildHierarchicalFilename(i - 1, task.parentTitles, task.name)
           valid    == WithContent(task.chapters)
       IN  (IF Len(task.chapters) = 1
              THEN (IF HasContent(task.chapters[1])
                      THEN <<File(filename, task.chapters)>> ELSE <<>>)
              ELSE (IF Len(valid) > 0 THEN <<File(filename, valid)>> ELSE <<>>))
           \o ZipEpub(tasks, i + 1)

\* What the export writes: one PDF download, or a zip of the task files.
render(ft, tasks) ==
  IF IsSingleDownload(tasks)
    THEN (IF (ft = "pdf" /\ HasPages(tasks[1].chapters[1]))
              \/ (ft = "epub" /\ HasContent(tasks[1].chapters[1]))
            THEN [kind |-> "pdf",
                  files |-> <<File(buildHierarchicalFilename(0, tasks[1].parentTitles,
                                                             tasks[1].name),
                                   tasks[1].chapters)>>]
            ELSE NoOutput)
    ELSE [kind |-> "zip",
          files |-> IF ft = "pdf" THEN ZipPdf(tasks, 1) ELSE ZipEpub(tasks, 1)]

\* The task list when handleExport ends.
tasksAfterRender(ft, tasks) ==
  IF ft = "pdf" /\ ~IsSingleDownload(tasks) THEN SortedInPlace(tasks) ELSE tasks

----------------------------------------------------------------------------
\* The state machine.

\* The files the user can choose: file 1 is a PDF, file 2 an EPUB.
Files == {1, 2}

\* selectedFile.name.toLowerCase().endsWith('.pdf') ? 'pdf' : 'epub'
FileTypeOf(f) == IF f = 1 THEN "pdf" ELSE "epub"

\* setError(null)
NoError == <<>>

\* A handleFileSelect call that has not settled.
Extraction(f) == [op |-> "extract", file |-> f]

\* The resource paths leaves refer to.
Paths == {"a.xhtml", "b.xhtml"}

\* No chapters: useState<Chapter[]>([]).
NoChapters == [p \in {} |-> NewEpubChapter(p)]

\* The ChapterList state and the export results of a freshly mounted list.
ListReset ==
  /\ selectedChapters = {}
  /\ mergedChapters = {}
  /\ mergeMode = "separate"
  /\ exportTasks = <<>>
  /\ processed = {}
  /\ outputs = NoOutput

\* extractEpubChapters has not begun to load content.
LoaderIdle ==
  /\ leafHrefs = <<>>
  /\ zipFiles = {}
  /\ batchIndex = 0
  /\ taskState = <<>>
  /\ fileCache = {}
  /\ fileReads = [p \in Paths |-> 0]
  /\ leafContent = {}
  /\ now = 0
  /\ lastUpdateTime = 0
  /\ progressCalls = <<>>

\* An EPUB package whose manifest names no navigation document.
NoPackage == [navHref |-> FALSE, ncxHref |-> FALSE, navDoc |-> <<>>, ncxDoc |-> <<>>]

\* No navigation document has been parsed and no content document opened.
DocumentsUnread ==
  /\ package = NoPackage
  /\ parserCalls = <<>>
  /\ resource = <<>>
  /\ fragments = <<>>

\* handleFileSelect has been called with a file and extraction has begun.
Init ==
  /\ pc = "parsing"
  /\ file \in Files
  /\ fileType = FileTypeOf(file)
  /\ totalPages \in (IF fileType = "pdf" THEN PageCounts ELSE {0})
  /\ chapters = NoChapters
  /\ ListReset
  /\ isProcessing = TRUE
  /\ error = NoError
  /\ inFlight = <<Extraction(file)>>
  /\ LoaderIdle
  /\ DocumentsUnread

\* The tree with one more chapter object at the next free child index of parent.
WithChapter(T, ch) ==
  [q \in Nodes(T) \cup {ch.id} |-> IF q = ch.id THEN ch ELSE T[q]]

CanAddUnder(T, parent) ==
  /\ Cardinality(Nodes(T)) < MaxNodes
  /\ parent \in RightmostPath(T, <<>>)
  /\ Len(parent) < MaxDepth

NextChildId(T, parent) == Append(parent, NumChildren(T, parent))

uiUnchanged == UNCHANGED <<selectedChapters, mergedChapters, mergeMode>>
exportUnchanged == UNCHANGED <<exportTasks, processed, outputs>>
appUnchanged == UNCHANGED <<file, isProcessing, error, inFlight>>
documentsUnchanged == UNCHANGED <<package, parserCalls, resource, fragments>>
loaderUnchanged ==
  UNCHANGED <<leafHrefs, zipFiles, batchIndex, taskState, fileCache, fileReads,
              leafContent, now, lastUpdateTime, progressCalls>>

\* The sequence without its k-th element.
Without(seq, k) == SubSeq(seq, 1, k - 1) \o SubSeq(seq, k + 1, Len(seq))

\* '此 PDF 文件没有目录信息...' / '此 EPUB 文件没有目录信息...'
NoTocError == <<"no table of contents">>

\* handleFileSelect after the extraction returned (lines 50-63).
extractionReturned(k) ==
  /\ isProcessing' = FALSE
  /\ inFlight' = Without(inFlight, k)
  /\ UNCHANGED <<file, error>>

\* handleFileSelect's catch block (lines 64-68).
extractionThrew(k, message) ==
  /\ error' = message
  /\ isProcessing' = FALSE
  /\ inFlight' = Without(inFlight, k)
  /\ UNCHANGED file

\* parseOutlineItem on the next entry of the PDF outline, whose destination
\* resolves to startPage (page 1 also when it cannot be resolved).
ParseOutlineItem(parent, startPage) ==
  /\ pc = "parsing" /\ fileType = "pdf"
  /\ CanAddUnder(chapters, parent)
  /\ chapters' = WithChapter(chapters,
                             NewPdfChapter(NextChildId(chapters, parent), startPage))
  /\ UNCHANGED <<pc, fileType, totalPages>>
  /\ uiUnchanged /\ exportUnchanged /\ loaderUnchanged /\ appUnchanged /\ documentsUnchanged

\* parseNavList / parseNavPoint on the next entry of the EPUB navigation.
ParseNavItem(parent) ==
  /\ pc = "parsing" /\ fileType = "epub"
  /\ CanAddUnder(chapters, parent)
  /\ chapters' = WithChapter(chapters, NewEpubChapter(NextChildId(chapters, parent)))
  /\ UNCHANGED <<pc, fileType, totalPages>>
  /\ uiUnchanged /\ exportUnchanged /\ loaderUnchanged /\ appUnchanged /\ documentsUnchanged

ExtractNoOutlineReturnsEmpty ==
  /\ pc = "parsing" /\ Nodes(chapters) = {}
  /\ pc' = "ready"
  /\ UNCHANGED <<fileType, totalPages, chapters>>
  /\ uiUnchanged /\ exportUnchanged /\ loaderUnchanged /\ appUnchanged /\ documentsUnchanged

\* extractPdfChapters / extractEpubChapters throw when there is no entry.
ExtractNoOutline ==
  /\ pc = "parsing" /\ Nodes(chapters) = {}
  /\ pc' = "failed"
  /\ UNCHANGED <<fileType, totalPages, chapters>>
  /\ uiUnchanged /\ exportUnchanged /\ loaderUnchanged /\ extractionThrew(1, NoTocError) /\ documentsUnchanged

\* extractPdfChapters, line 181: calculateEndPages(chapters, totalPages).
CalculateEndPages ==
  /\ pc = "parsing" /\ fileType = "pdf" /\ Nodes(chapters) # {}
  /\ chapters' = calculateEndPages(chapters, totalPages)
  /\ pc' = "resolved"
  /\ UNCHANGED <<fileType, totalPages>>
  /\ uiUnchanged /\ exportUnchanged /\ loaderUnchanged /\ appUnchanged /\ documentsUnchanged

\* calculateEndPages applied once more to the resolved tree.
CalculateEndPagesAgain ==
  /\ pc = "resolved"
  /\ chapters' = calculateEndPages(chapters, totalPages)
  /\ pc' = "resolvedAgain"
  /\ UNCHANGED <<fileType, totalPages>>
  /\ uiUnchanged /\ exportUnchanged /\ loaderUnchanged /\ appUnchanged /\ documentsUnchanged

\* extractPdfChapters returns and handleFileSelect stores the tree.
ReturnPdfChapters ==
  /\ pc \in {"resolved", "resolvedAgain"}
  /\ pc' = "ready"
  /\ UNCHANGED <<fileType, totalPages, chapters>>
  /\ uiUnchanged /\ exportUnchanged /\ loaderUnchanged /\ extractionReturned(1) /\ documentsUnchanged

\* extractEpubChapters loads the content of the leaves (a leaf whose file is
\* missing or empty keeps no content) and returns the tree.
LoadEpubContent(loaded) ==
  /\ pc = "parsing" /\ fileType = "epub" /\ Nodes(chapters) # {}
  /\ loaded \subseteq {p \in Nodes(chapters) : IsLeaf(chapters, p)}
  /\ chapters' = [p \in Nodes(chapters) |->
                    IF p \in loaded THEN [chapters[p] EXCEPT !.content = <<p>>]
                    ELSE chapters[p]]
  /\ pc' = "ready"
  /\ UNCHANGED <<fileType, totalPages>>
  /\ uiUnchanged /\ exportUnchanged /\ loaderUnchanged /\ extractionReturned(1) /\ documentsUnchanged

\* The chapter list is shown; the task list of a finished export is gone.
Listed == pc \in {"ready", "exported", "exportedAgain"}

afterUiAction ==
  /\ pc' = "ready"
  /\ exportTasks' = <<>> /\ processed' = {} /\ outputs' = NoOutput
  /\ UNCHANGED <<fileType, totalPages, chapters>>
  /\ loaderUnchanged /\ appUnchanged /\ documentsUnchanged

HandleSelectAll ==
  /\ Listed
  /\ selectedChapters' =
       IF Cardinality(selectedChapters) = Len(allChapterIds(chapters))
         THEN {} ELSE SeqToSet(allChapterIds(chapters))
  /\ UNCHANGED <<mergedChapters, mergeMode>>
  /\ afterUiAction

HandleClearSelection ==
  /\ Listed /\ selectedChapters # {}
  /\ selectedChapters' = {} /\ mergedChapters' = {}
  /\ UNCHANGED mergeMode
  /\ afterUiAction

HandleToggleChapter(ch) ==
  /\ Listed /\ ch \in Nodes(chapters)
  /\ selectedChapters' =
       IF ch \in selectedChapters
         THEN selectedChapters \ getChapterAndChildrenIds(chapters, ch)
         ELSE selectedChapters \cup getChapterAndChildrenIds(chapters, ch)
  /\ UNCHANGED <<mergedChapters, mergeMode>>
  /\ afterUiAction

\* The merge button is rendered when hasChildren && hasSelectedChildren.
HandleToggleMerge(ch) ==
  /\ Listed /\ ch \in Nodes(chapters)
  /\ hasSelectedChildren(chapters, selectedChapters, ch)
  /\ mergedChapters' =
       IF ch \in mergedChapters THEN mergedChapters \ {ch} ELSE mergedChapters \cup {ch}
  /\ UNCHANGED <<selectedChapters, mergeMode>>
  /\ afterUiAction

\* The mode buttons are rendered when isAllSelected && selectedChapters.size > 1.
SetMergeMode(mode) ==
  /\ Listed
  /\ isAllSelected(chapters, selectedChapters) /\ Cardinality(selectedChapters) > 1
  /\ mergeMode' = mode
  /\ UNCHANGED <<selectedChapters, mergedChapters>>
  /\ afterUiAction

\* ChapterList.handleExport and App.handleExport: plan, then render.
ExportTo(after) ==
  /\ Listed /\ selectedChapters # {} /\ ~isProcessing /\ file # 0
  /\ \E plan \in {planExport(chapters, fileType, selectedChapters, mergedChapters,
                              mergeMode)} :
       /\ exportTasks' = tasksAfterRender(fileType, plan.tasks)
       /\ processed' = plan.processed
       /\ outputs' = render(fileType, plan.tasks)
  /\ pc' = after
  /\ error' = NoError
  /\ UNCHANGED <<fileType, totalPages, chapters, file, isProcessing, inFlight>>
  /\ uiUnchanged /\ loaderUnchanged /\ documentsUnchanged

HandleExport == ExportTo("exported")

\* The export button pressed again right after an export, nothing changed.
HandleExportAgain == pc = "exported" /\ ExportTo("exportedAgain")

Next ==
  \/ \E parent \in Nodes(chapters) \cup {<<>>}, startPage \in StartPages :
       ParseOutlineItem(parent, startPage)
  \/ \E parent \in Nodes(chapters) \cup {<<>>} : ParseNavItem(parent)
  \/ ExtractNoOutline
  \/ CalculateEndPages
  \/ ReturnPdfChapters
  \/ \E loaded \in SUBSET Nodes(chapters) : LoadEpubContent(loaded)
  \/ HandleSelectAll
  \/ HandleClearSelection
  \/ \E ch \in Nodes(chapters) : HandleToggleChapter(ch)
  \/ \E ch \in Nodes(chapters) : HandleToggleMerge(ch)
  \/ \E mode \in {"separate", "merge"} : SetMergeMode(mode)
  \/ HandleExport

Spec == Init /\ [][Next]_vars

\* The application with a second export on the same tree and selection.
NextExportAgain == Next \/ HandleExportAgain

SpecExportAgain == Init /\ [][NextExportAgain]_vars

\* Extraction of a PDF alone, with calculateEndPages applied a second time.
NextResolve ==
  \/ \E parent \in Nodes(chapters) \cup {<<>>}, startPage \in StartPages :
       ParseOutlineItem(parent, startPage)
  \/ ExtractNoOutline
  \/ CalculateEndPages
  \/ CalculateEndPagesAgain
  \/ ReturnPdfChapters

SpecResolve == Init /\ [][NextResolve]_vars

----------------------------------------------------------------------------
\* EPUB content loading (utils/epubProcessor.ts extractEpubChapters, lines
\* 299-367).  Leaves are numbered 1..Len(leafHrefs) in the order of the
\* leafChapters array; every file of the archive has non-empty text.

\* Bound of the explored leaf lists.
MaxLeaves == 3

batchSize == 10
updateInterval == 100

\* setTimeout(resolve, 100) between batches.
batchDelay == 100

\* The ms that pass between two events while chapterFile.async('text') runs.
ReadDelays == {0, 1, 100}

InitLoad ==
  /\ pc = "loadStart"
  /\ file = 2
  /\ fileType = FileTypeOf(file)
  /\ totalPages = 0
  /\ chapters = NoChapters
  /\ ListReset
  /\ isProcessing = TRUE
  /\ error = NoError
  /\ inFlight = <<Extraction(file)>>
  /\ leafHrefs \in UNION {[1..n -> Paths] : n \in 1..MaxLeaves}
  /\ zipFiles \in SUBSET Paths
  /\ batchIndex = 0
  /\ taskState = [k \in 1..Len(leafHrefs) |-> "idle"]
  /\ fileCache = {}
  /\ fileReads = [p \in Paths |-> 0]
  /\ leafContent = {}
  /\ now = 0
  /\ lastUpdateTime = 0
  /\ progressCalls = <<>>
  /\ DocumentsUnread

\* Math.min(i + batchSize, leafChapters.length): the number of the batch's
\* last leaf.
BatchEnd ==
  IF batchIndex + batchSize < Len(leafHrefs) THEN batchIndex + batchSize
  ELSE Len(leafHrefs)

ProgressCall(at, current, forced) == [at |-> at, current |-> current, forced |-> forced]

\* Lines 340-356 of the callback of leaf k, run at time t on the loader state
\* st: the content is assigned when the cache has the text, and onProgress is
\* called for the batch's last leaf or when updateInterval has passed.
afterRead(st, k, t) ==
  IF leafHrefs[k] \in st.fileCache
    THEN LET report == k = BatchEnd \/ t - st.lastUpdateTime >= updateInterval
         IN  [st EXCEPT !.leafContent = @ \cup {k},
                        !.taskState[k] = "done",
                        !.progressCalls =
                           IF report THEN Append(@, ProgressCall(t, k, FALSE)) ELSE @,
                        !.lastUpdateTime = IF report THEN t ELSE @]
    ELSE [st EXCEPT !.taskState[k] = "done"]

RECURSIVE startCallbacks(_, _)
\* batch.map(async ...) from leaf k on: each callback runs up to its first
\* await.  A callback whose path is not cached begins to read the file when the
\* archive has it; with a cached path, or no file, it runs to its end.
startCallbacks(st, k) ==
  IF k > BatchEnd THEN st
  ELSE LET path == leafHrefs[k]
       IN  startCallbacks(
             IF path \notin st.fileCache /\ path \in zipFiles
               THEN [st EXCEPT !.taskState[k] = "reading",
                               !.fileReads[path] = @ + 1]
               ELSE afterRead(st, k, now),
             k + 1)

LoaderState ==
  [taskState |-> taskState, fileCache |-> fileCache, fileReads |-> fileReads,
   leafContent |-> leafContent, lastUpdateTime |-> lastUpdateTime,
   progressCalls |-> progressCalls]

SetLoaderState(st) ==
  /\ taskState' = st.taskState
  /\ fileCache' = st.fileCache
  /\ fileReads' = st.fileReads
  /\ leafContent' = st.leafContent
  /\ lastUpdateTime' = st.lastUpdateTime
  /\ progressCalls' = st.progressCalls

treeUnchanged == UNCHANGED <<fileType, totalPages, chapters>>

\* The loop body up to Promise.all: the batch's callbacks are started.
StartBatch ==
  /\ pc = "loadStart" /\ batchIndex < Len(leafHrefs)
  /\ SetLoaderState(startCallbacks(LoaderState, batchIndex + 1))
  /\ pc' = "loadBatch"
  /\ UNCHANGED <<leafHrefs, zipFiles, batchIndex, now>>
  /\ treeUnchanged /\ uiUnchanged /\ exportUnchanged /\ appUnchanged /\ documentsUnchanged

\* chapterFile.async('text') of leaf k resolves, delay ms after the last
\* event: the text is cached and the callback runs to its end.
ReadDone(k, delay) ==
  /\ pc = "loadBatch" /\ k \in 1..Len(leafHrefs) /\ taskState[k] = "reading"
  /\ now' = now + delay
  /\ SetLoaderState(afterRead([LoaderState EXCEPT !.fileCache = @ \cup {leafHrefs[k]}],
                              k, now + delay))
  /\ UNCHANGED <<pc, leafHrefs, zipFiles, batchIndex>>
  /\ treeUnchanged /\ uiUnchanged /\ exportUnchanged /\ appUnchanged /\ documentsUnchanged

FinishBatchWithoutAwait ==
  /\ pc = "loadBatch"
  /\ progressCalls' = Append(progressCalls, ProgressCall(now, BatchEnd, TRUE))
  /\ now' = now + batchDelay
  /\ batchIndex' = batchIndex + batchSize
  /\ pc' = "loadStart"
  /\ UNCHANGED <<leafHrefs, zipFiles, taskState, fileCache, fileReads, leafContent,
                 lastUpdateTime>>
  /\ treeUnchanged /\ uiUnchanged /\ exportUnchanged /\ appUnchanged /\ documentsUnchanged

\* Promise.all resolved: the forced onProgress call and the delay between
\* batches (lines 360-366).
FinishBatch ==
  /\ pc = "loadBatch"
  /\ \A k \in (batchIndex + 1)..BatchEnd : taskState[k] = "done"
  /\ progressCalls' = Append(progressCalls, ProgressCall(now, BatchEnd, TRUE))
  /\ now' = now + batchDelay
  /\ batchIndex' = batchIndex + batchSize
  /\ pc' = "loadStart"
  /\ UNCHANGED <<leafHrefs, zipFiles, taskState, fileCache, fileReads, leafContent,
                 lastUpdateTime>>
  /\ treeUnchanged /\ uiUnchanged /\ exportUnchanged /\ appUnchanged /\ documentsUnchanged

\* The batch loop ends and extractEpubChapters returns.
ReturnEpubChapters ==
  /\ pc = "loadStart" /\ batchIndex >= Len(leafHrefs)
  /\ pc' = "loaded"
  /\ extractionReturned(1)
  /\ treeUnchanged /\ uiUnchanged /\ exportUnchanged /\ loaderUnchanged /\ documentsUnchanged

NextLoad ==
  \/ StartBatch
  \/ \E k \in 1..Len(leafHrefs), delay \in ReadDelays : ReadDone(k, delay)
  \/ FinishBatch
  \/ ReturnEpubChapters

SpecEpubLoad == InitLoad /\ [][NextLoad]_vars

----------------------------------------------------------------------------
\* The App component (App.tsx): file selection, the '更换' button and export as
\* calls that start and later settle.

\* Bound of the handleFileSelect / handleExport calls in flight at a time.
MaxInFlight == 2

InitApp ==
  /\ pc = "upload"
  /\ file = 0
  /\ fileType = "pdf"
  /\ totalPages = 0
  /\ chapters = NoChapters
  /\ ListReset
  /\ isProcessing = FALSE
  /\ error = NoError
  /\ inFlight = <<>>
  /\ LoaderIdle
  /\ DocumentsUnread

\* The chapter tree the extraction of file f returns: [A(p1), B(p10)] of a
\* PDF with the smallest page count, one loaded chapter of an EPUB.
ExtractedChapters(f) ==
  IF FileTypeOf(f) = "pdf"
    THEN calculateEndPages(
           WithChapter(WithChapter(NoChapters, NewPdfChapter(<<0>>, Min(StartPages))),
                       NewPdfChapter(<<1>>, Min(StartPages \ {Min(StartPages)}))),
           Min(PageCounts))
    ELSE WithChapter(NoChapters, [NewEpubChapter(<<0>>) EXCEPT !.content = <<<<0>>>>])

\* What <main> renders: FileUpload without a file, ChapterList when there are
\* chapters, the file card alone otherwise.
AppView(f, T) ==
  IF f = 0 THEN "upload" ELSE IF Nodes(T) # {} THEN "ready" ELSE "noList"

\* ChapterList keeps its state while it stays mounted and starts anew when it
\* is mounted again.
listRemounted ==
  /\ selectedChapters' = {}
  /\ mergedChapters' = {}
  /\ mergeMode' = "separate"
  /\ exportTasks' = <<>>
  /\ processed' = {}
  /\ outputs' = NoOutput

listKept ==
  IF pc = "ready" /\ pc' = "ready"
    THEN uiUnchanged /\ exportUnchanged
    ELSE listRemounted

\* '文件处理失败' and '导出失败', or the message of the error thrown.
ExtractionErrors == {NoTocError, <<"file processing failed">>}
ExportError == <<"export failed">>

\* A handleExport call that has not settled: the task list is planned before
\* the first await.
Export(f, ft, plan) ==
  [op |-> "export", file |-> f, fileType |-> ft, tasks |-> plan.tasks,
   processed |-> plan.processed]

\* handleFileSelect up to its first await (lines 30-40).
HandleFileSelect(f) ==
  /\ file = 0 /\ Len(inFlight) < MaxInFlight
  /\ file' = f
  /\ error' = NoError
  /\ isProcessing' = TRUE
  /\ fileType' = FileTypeOf(f)
  /\ inFlight' = Append(inFlight, Extraction(f))
  /\ pc' = AppView(file', chapters)
  /\ listKept
  /\ UNCHANGED <<totalPages, chapters>>
  /\ loaderUnchanged /\ documentsUnchanged

\* The extraction of the k-th call in flight returns (lines 50-63).
ExtractionReturns(k) ==
  /\ k \in 1..Len(inFlight) /\ inFlight[k].op = "extract"
  /\ chapters' = ExtractedChapters(inFlight[k].file)
  /\ extractionReturned(k)
  /\ pc' = AppView(file, chapters')
  /\ listKept
  /\ UNCHANGED <<fileType, totalPages>>
  /\ loaderUnchanged /\ documentsUnchanged

ExtractionThrowsStoringPartial(k) ==
  /\ k \in 1..Len(inFlight) /\ inFlight[k].op = "extract"
  /\ \E message \in ExtractionErrors : extractionThrew(k, message)
  /\ chapters' = WithChapter(NoChapters, NewEpubChapter(<<0>>))
  /\ pc' = AppView(file, chapters')
  /\ listKept
  /\ UNCHANGED <<fileType, totalPages>>
  /\ loaderUnchanged /\ documentsUnchanged

\* The extraction of the k-th call in flight throws (lines 64-68).
ExtractionThrows(k) ==
  /\ k \in 1..Len(inFlight) /\ inFlight[k].op = "extract"
  /\ \E message \in ExtractionErrors : extractionThrew(k, message)
  /\ UNCHANGED <<pc, fileType, totalPages, chapters>>
  /\ uiUnchanged /\ exportUnchanged /\ loaderUnchanged /\ documentsUnchanged

\* The '更换' button (lines 478-487): always shown with a file, never disabled.
ReplaceFile ==
  /\ file # 0
  /\ file' = 0
  /\ chapters' = NoChapters
  /\ error' = NoError
  /\ pc' = "upload"
  /\ listRemounted
  /\ UNCHANGED <<fileType, totalPages, isProcessing, inFlight>>
  /\ loaderUnchanged /\ documentsUnchanged

\* The export button (disabled without a selection and while isProcessing)
\* and handleExport up to its first await: the tasks are planned.
StartExport ==
  /\ pc = "ready" /\ selectedChapters # {} /\ ~isProcessing
  /\ file # 0 /\ findSelectedChapters(chapters, selectedChapters) # <<>>
  /\ Len(inFlight) < MaxInFlight
  /\ isProcessing' = TRUE
  /\ error' = NoError
  /\ inFlight' = Append(inFlight,
                        Export(file, fileType,
                               planExport(chapters, fileType, selectedChapters,
                                          mergedChapters, mergeMode)))
  /\ UNCHANGED <<pc, file, fileType, totalPages, chapters>>
  /\ uiUnchanged /\ exportUnchanged /\ loaderUnchanged /\ documentsUnchanged

\* The export of the k-th call in flight has written its files (lines 291-426).
ExportReturns(k) ==
  /\ k \in 1..Len(inFlight) /\ inFlight[k].op = "export"
  /\ exportTasks' = tasksAfterRender(inFlight[k].fileType, inFlight[k].tasks)
  /\ processed' = inFlight[k].processed
  /\ outputs' = render(inFlight[k].fileType, inFlight[k].tasks)
  /\ isProcessing' = FALSE
  /\ inFlight' = Without(inFlight, k)
  /\ UNCHANGED <<pc, file, error, fileType, totalPages, chapters>>
  /\ uiUnchanged /\ loaderUnchanged /\ documentsUnchanged

\* The export of the k-th call in flight throws (lines 427-431).
ExportThrows(k) ==
  /\ k \in 1..Len(inFlight) /\ inFlight[k].op = "export"
  /\ error' = ExportError
  /\ isProcessing' = FALSE
  /\ inFlight' = Without(inFlight, k)
  /\ UNCHANGED <<pc, file, fileType, totalPages, chapters>>
  /\ uiUnchanged /\ exportUnchanged /\ loaderUnchanged /\ documentsUnchanged

NextApp ==
  \/ \E f \in Files : HandleFileSelect(f)
  \/ \E k \in 1..MaxInFlight : ExtractionReturns(k)
  \/ \E k \in 1..MaxInFlight : ExtractionThrows(k)
  \/ ReplaceFile
  \/ HandleSelectAll
  \/ StartExport
  \/ \E k \in 1..MaxInFlight : ExportReturns(k)
  \/ \E k \in 1..MaxInFlight : ExportThrows(k)

SpecApp == InitApp /\ [][NextApp]_vars

----------------------------------------------------------------------------
\* Properties of range resolution.

ResolvedPdf == fileType = "pdf" /\ pc \in {"resolved", "resolvedAgain", "ready", "exported"}

\* The pages startPage..endPage of a chapter (none when endPage < startPage).
PageSet(ch) == ch.startPage..ch.endPage

SortedLeaves == ChaptersOf(chapters, leafChapters(chapters))

Contiguous(L) == \A i \in 1..(Len(L) - 1) : L[i].endPage + 1 = L[i + 1].startPage

NonOverlapping(L) ==
  \A i, j \in 1..Len(L) : i # j => PageSet(L[i]) \cap PageSet(L[j]) = {}

Covered(L) == UNION {PageSet(L[i]) : i \in 1..Len(L)}

\* C1 as stated: after calculateEndPages the leaves, sorted by startPage, have
\* contiguous, pairwise non-overlapping page ranges whose union is exactly
\* 1..totalPages.
C1_LeavesCoverAllPages ==
  ResolvedPdf =>
    /\ Contiguous(SortedLeaves)
    /\ NonOverlapping(SortedLeaves)
    /\ Covered(SortedLeaves) = 1..totalPages

\* C1 as amended: after calculateEndPages the leaves, in the resolver's sorted
\* order, have contiguous, pairwise non-overlapping page ranges whose union is
\* exactly (startPage of the first sorted leaf)..totalPages; the pages before
\* the first leaf belong to no leaf.
C1_LeavesCoverFromFirstStart ==
  ResolvedPdf =>
    /\ Contiguous(SortedLeaves)
    /\ NonOverlapping(SortedLeaves)
    /\ Covered(SortedLeaves) = SortedLeaves[1].startPage..totalPages

C1_Witness ==
  /\ ResolvedPdf
  /\ Len(SortedLeaves) >= 3
  /\ SortedLeaves[1].startPage > 1
  /\ \E i \in 1..(Len(SortedLeaves) - 1) :
       SortedLeaves[i].startPage < SortedLeaves[i + 1].startPage

\* C2 as stated: after range resolution every node of a PDF chapter tree, leaf
\* or parent, satisfies startPage <= endPage.
C2_StartNotAfterEnd ==
  ResolvedPdf => \A p \in Nodes(chapters) : chapters[p].startPage <= chapters[p].endPage

IsDescendant(q, p) == Len(q) > Len(p) /\ SubSeq(q, 1, Len(p)) = p

\* The leaf reached from p by following the last child at every level.
LastLeafOf(T, p) ==
  CHOOSE q \in Nodes(T) :
    /\ IsLeaf(T, q) /\ IsDescendant(q, p)
    /\ \A k \in (Len(p) + 1)..Len(q) :
         q[k] = NumChildren(T, SubSeq(q, 1, k - 1)) - 1

\* C3: after range resolution every parent's endPage equals the endPage of the
\* leaf reached by repeatedly following its last child, at every depth.
C3_ParentEndsWithLastLeaf ==
  ResolvedPdf =>
    \A p \in Nodes(chapters) :
      hasChildren(chapters, p) =>
        chapters[p].endPage = chapters[LastLeafOf(chapters, p)].endPage

C3_Witness ==
  /\ ResolvedPdf
  /\ \E p \in Nodes(chapters) :
       /\ Len(p) = 1 /\ hasChildren(chapters, p)
       /\ Len(LastLeafOf(chapters, p)) = 3
       /\ chapters[Append(p, 0)].endPage # chapters[p].endPage

\* The outline [A(p1, [A1(p1), A2(p10)]), B(p20)].
ScenarioOutline ==
  /\ Nodes(chapters) = {<<0>>, <<0, 0>>, <<0, 1>>, <<1>>}
  /\ chapters[<<0>>].startPage = 1
  /\ chapters[<<0, 0>>].startPage = 1
  /\ chapters[<<0, 1>>].startPage = 10
  /\ chapters[<<1>>].startPage = 20

\* C4: calculateEndPages sets each leaf's endPage to the startPage of the next
\* leaf in startPage order minus 1, and the last leaf's endPage to totalPages;
\* on [A(p1, [A1(p1), A2(p10)]), B(p20)] with 30 pages: A1 ends at 9, A2 at 19,
\* A at 19 and B at 30.
C4_LeafEndsBeforeNextLeaf ==
  ResolvedPdf =>
    /\ \A i \in 1..Len(SortedLeaves) :
         SortedLeaves[i].endPage =
           IF i < Len(SortedLeaves) THEN SortedLeaves[i + 1].startPage - 1
           ELSE totalPages
    /\ (ScenarioOutline /\ totalPages = 30) =>
         /\ chapters[<<0, 0>>].endPage = 9
         /\ chapters[<<0, 1>>].endPage = 19
         /\ chapters[<<0>>].endPage = 19
         /\ chapters[<<1>>].endPage = 30

C4_Witness == ResolvedPdf /\ ScenarioOutline /\ totalPages = 30

\* C5: running calculateEndPages a second time on the resolved tree, with the
\* same totalPages, leaves the startPage and endPage of every node as they were
\* after the first run.
C5_ResolveIdempotent ==
  [][(pc = "resolved" /\ pc' = "resolvedAgain") =>
       /\ Nodes(chapters') = Nodes(chapters)
       /\ \A p \in Nodes(chapters) :
            /\ chapters'[p].startPage = chapters[p].startPage
            /\ chapters'[p].endPage = chapters[p].endPage]_vars

C5_Witness ==
  /\ pc = "resolvedAgain"
  /\ Len(SortedLeaves) >= 2
  /\ \E p \in Nodes(chapters) : hasChildren(chapters, p)
  /\ \E p \in Nodes(chapters) : chapters[p].endPage # chapters[p].startPage

----------------------------------------------------------------------------
\* Properties of export planning.

Exported == pc = "exported"

AllIds == Nodes(chapters)

\* The export that ran was the whole-tree merge.
WholeTreeMerge == selectedChapters = AllIds /\ mergeMode = "merge"

\* Document order of two ids: an ancestor before its descendants, a node's
\* subtree before its next sibling.
DocBefore(a, b) ==
  \/ IsDescendant(b, a)
  \/ \E k \in 1..Len(a) :
       /\ k <= Len(b) /\ a[k] < b[k]
       /\ SubSeq(a, 1, k - 1) = SubSeq(b, 1, k - 1)

\* A sequence of chapters is in page order (PDF, document order among equal
\* start pages) or in document order (EPUB).
InOrder(chs) ==
  \A i, j \in 1..Len(chs) :
    i < j =>
      IF fileType = "pdf"
        THEN \/ chs[i].startPage < chs[j].startPage
             \/ chs[i].startPage = chs[j].startPage /\ DocBefore(chs[i].id, chs[j].id)
        ELSE DocBefore(chs[i].id, chs[j].id)

\* chs holds exactly the nodes of ids, each once, as the tree has them, in order.
ExactlyNodes(chs, ids) ==
  /\ Len(chs) = Cardinality(ids)
  /\ \A i \in 1..Len(chs) : chs[i].id \in ids /\ chs[i] = chapters[chs[i].id]
  /\ InOrder(chs)

TasksOf(id) == {i \in 1..Len(exportTasks) : exportTasks[i].chapterId = id}

SelectedDescendants(ch) == {q \in selectedChapters : IsDescendant(q, ch)}

\* The titles of the ancestors of ch, from the root down to its parent.
AncestorTitles(ch) == [k \in 1..(Len(ch) - 1) |-> chapters[SubSeq(ch, 1, k)].title]

\* ch is a selected descendant of a merge-flagged node: that node's task, or
\* the task of a merge-flagged node above it, has taken ch.
Absorbed(ch) ==
  /\ ch \in selectedChapters
  /\ \E a \in mergedChapters : a \in AllIds /\ IsDescendant(ch, a)

EarliestSelectedStart(ch) ==
  Min({chapters[q].startPage : q \in SelectedDescendants(ch)})

\* C6 as stated: with the whole node-id set selected and mode 'merge' the
\* planner emits exactly one task, with no parent titles and the generic name,
\* whose content units are all the leaves of the tree in page/document order.
C6_WholeTreeMergeAllLeaves ==
  (Exported /\ WholeTreeMerge) =>
    /\ Len(exportTasks) = 1
    /\ exportTasks[1].parentTitles = <<>>
    /\ exportTasks[1].name = MergedName
    /\ ExactlyNodes(exportTasks[1].chapters, {q \in AllIds : IsLeaf(chapters, q)})

\* The units a merge task of ch holds after a possible intro unit.
MergeUnitsOk(ch, task, withIntro) ==
  IF withIntro
    THEN /\ Len(task.chapters) >= 1
         /\ task.chapters[1].intro /\ task.chapters[1].id = ch
         /\ ExactlyNodes(Tail(task.chapters), SelectedDescendants(ch))
    ELSE ExactlyNodes(task.chapters, SelectedDescendants(ch))

\* The merge branch's notion of independent content: a PDF node whose resolved
\* endPage is not 0 and whose startPage is below the smallest start page of its
\* selected descendants; an EPUB node with content.
MergeIndependent(ch) ==
  IF fileType = "pdf"
    THEN chapters[ch].endPage # 0 /\ chapters[ch].startPage < EarliestSelectedStart(ch)
    ELSE chapters[ch].content # <<>>

MergeTaskOk(ch) ==
  /\ Cardinality(TasksOf(ch)) = 1
  /\ \A i \in TasksOf(ch) :
       /\ exportTasks[i].name = chapters[ch].title
       /\ exportTasks[i].parentTitles = AncestorTitles(ch)
       /\ MergeUnitsOk(ch, exportTasks[i], MergeIndependent(ch))

MergeFlaggedWithSelection(ch) ==
  /\ ch \in mergedChapters /\ hasChildren(chapters, ch)
  /\ SelectedDescendants(ch) # {}

\* Selecting A1, A2, B of [A(p1, [A1(p1), A2(p10)]), B(p20)] with a merge flag
\* on A gives the tasks [A: [A1, A2], B: [B]].
C7_Scenario ==
  (/\ fileType = "pdf" /\ ScenarioOutline
   /\ selectedChapters = {<<0, 0>>, <<0, 1>>, <<1>>}
   /\ mergedChapters = {<<0>>}) =>
    /\ Len(exportTasks) = 2
    /\ exportTasks[1].name = <<"A">>
    /\ IdsOf(exportTasks[1].chapters) = <<<<0, 0>>, <<0, 1>>>>
    /\ exportTasks[2].name = <<"B">>
    /\ IdsOf(exportTasks[2].chapters) = <<<<1>>>>
    /\ \A i \in 1..2 : \A k \in 1..Len(exportTasks[i].chapters) :
         ~exportTasks[i].chapters[k].intro

IsPdfIntroOf(unit, ch, first) ==
  /\ unit.intro /\ unit.id = ch
  /\ unit.startPage = chapters[ch].startPage
  /\ unit.endPage = first - 1

NoIntroIn(chs) == \A k \in 1..Len(chs) : ~chs[k].intro

\* The file the export wrote for the i-th task, if any.
FilesOfTask(i) ==
  {k \in 1..Len(outputs.files) :
     outputs.files[k].filename =
       buildHierarchicalFilename(i - 1, exportTasks[i].parentTitles, exportTasks[i].name)}

\* The i-th task is the merge task of a merge-flagged parent.
IsMergeTask(i) ==
  /\ exportTasks[i].chapterId \in AllIds
  /\ exportTasks[i].chapterId \in mergedChapters
  /\ hasChildren(chapters, exportTasks[i].chapterId)

\* C8 as stated: in a PDF merge task of a merge-flagged parent the first unit
\* covers exactly parent.startPage..(first - 1), first being the smallest start
\* page of the parent's selected descendants, when parent.startPage < first;
\* there is no intro unit when parent.startPage >= first; and the intro unit
\* is still first in the file after the render-time sort.
C8_MergeTaskIntroRange ==
  (Exported /\ fileType = "pdf") =>
    \A i \in 1..Len(exportTasks) :
      IsMergeTask(i) =>
        LET ch    == exportTasks[i].chapterId
            first == EarliestSelectedStart(ch)
        IN  IF chapters[ch].startPage < first
              THEN /\ IsPdfIntroOf(exportTasks[i].chapters[1], ch, first)
                   /\ NoIntroIn(Tail(exportTasks[i].chapters))
                   /\ \A k \in FilesOfTask(i) :
                        IsPdfIntroOf(outputs.files[k].chapters[1], ch, first)
                   /\ FilesOfTask(i) # {}
              ELSE NoIntroIn(exportTasks[i].chapters)

\* The selected-parent branch's notion of independent content.
ParentIndependent(ch) ==
  IF fileType = "pdf"
    THEN /\ SelectedDescendants(ch) # {}
         /\ chapters[ch].endPage # 0
         /\ chapters[ch].startPage < EarliestSelectedStart(ch)
    ELSE chapters[ch].content # <<>>

SelectedUnflaggedParent(ch) ==
  /\ ch \in selectedChapters /\ hasChildren(chapters, ch)
  /\ ch \notin mergedChapters

SelectedLeafChildren(ch) ==
  {q \in selectedChapters : Len(q) = Len(ch) + 1 /\ IsDescendant(q, ch)
                            /\ IsLeaf(chapters, q)}

ParentTaskOk(ch) ==
  IF ParentIndependent(ch)
    THEN /\ Cardinality(TasksOf(ch)) = 1
         /\ \A i \in TasksOf(ch) :
              /\ exportTasks[i].name = chapters[ch].title
              /\ Len(exportTasks[i].chapters) = 1
              /\ exportTasks[i].chapters[1].intro
              /\ exportTasks[i].chapters[1].id = ch
              /\ fileType = "pdf" =>
                   IsPdfIntroOf(exportTasks[i].chapters[1], ch, EarliestSelectedStart(ch))
         /\ ch \in processed
         /\ \A q \in SelectedLeafChildren(ch) :
              /\ Cardinality(TasksOf(q)) = 1
              /\ \A i \in TasksOf(ch), j \in TasksOf(q) : i < j
    ELSE TasksOf(ch) = {} /\ ch \notin processed

LeafTaskOk(q) ==
  /\ Cardinality(TasksOf(q)) = 1
  /\ \A i \in TasksOf(q) :
       /\ exportTasks[i].name = chapters[q].title
       /\ exportTasks[i].chapters = <<chapters[q]>>

\* Selecting only A2 of [A(p1, [A1(p1), A2(p10)]), B(p20)], no merge flags.
OnlyA2Selected ==
  /\ fileType = "pdf" /\ ScenarioOutline
  /\ selectedChapters = {<<0, 1>>} /\ mergedChapters = {}

C10_Scenario ==
  OnlyA2Selected =>
    /\ Len(exportTasks) = 1
    /\ exportTasks[1].chapters = <<chapters[<<0, 1>>]>>
    /\ Len(outputs.files) = 1
    /\ SubSeq(outputs.files[1].filename, 1, 3) = <<"0", "1", "_">>

\* C10 as stated: a selected leaf that is not absorbed into a merge-flagged
\* ancestor's task yields exactly one task, named after the leaf, whose only
\* unit is the leaf; selecting only A2 with no merge flags gives exactly one
\* task with content [A2] whose file name starts with the ordinal 01.
C10_SelectedLeafOwnsOneTask ==
  Exported =>
    /\ \A q \in selectedChapters :
         (IsLeaf(chapters, q) /\ ~Absorbed(q)) => LeafTaskOk(q)
    /\ C10_Scenario

\* C10 as amended: the same, for every export that is not the whole-tree
\* merge (which puts every selected node into one generic task).
C10_SelectedLeafOwnsOneTaskUnlessWholeMerge ==
  (Exported /\ ~WholeTreeMerge) =>
    /\ \A q \in selectedChapters :
         (IsLeaf(chapters, q) /\ ~Absorbed(q)) => LeafTaskOk(q)
    /\ C10_Scenario

C10_Witness == Exported /\ OnlyA2Selected /\ totalPages = 30

\* The places (task, position) where node q is a content unit of its own, the
\* synthetic '<id>_intro' units not counted.
UnitsOf(q) ==
  {<<i, k>> \in (1..Len(exportTasks)) \X (1..MaxNodes + 1) :
     /\ k <= Len(exportTasks[i].chapters)
     /\ exportTasks[i].chapters[k].id = q
     /\ ~exportTasks[i].chapters[k].intro}

\* C11: in an export that is not the whole-tree merge no node is emitted
\* twice: each node is a content unit of at most one task and owns at most
\* one task, whatever the selection and the merge flags.
C11_NoNodeEmittedTwice ==
  (Exported /\ ~WholeTreeMerge) =>
    \A q \in AllIds :
      /\ Cardinality(UnitsOf(q)) <= 1
      /\ Cardinality(TasksOf(q)) <= 1

C13_UnitsAreLeafLevel ==
  Exported =>
    \A i \in 1..Len(exportTasks) : \A k \in 1..Len(exportTasks[i].chapters) :
      LET unit == exportTasks[i].chapters[k]
      IN  unit.intro \/ IsLeaf(chapters, unit.id)

----------------------------------------------------------------------------
\* Properties of extraction and of export rendering.

\* The extraction returned a tree.
Extracted == pc \in {"resolved", "resolvedAgain", "ready", "exported", "exportedAgain"}

\* C16: extraction never returns an empty chapter tree: when parsing gives no
\* top-level entry the extraction fails with the 'no table of contents' error
\* and a successful extraction returns at least one top-level chapter, for
\* PDF and for EPUB.
C16_NoEmptyTree ==
  [][/\ (pc = "parsing" /\ ChildIds(chapters, <<>>) = <<>> /\ pc' # "parsing") =>
          pc' = "failed"
     /\ (pc = "parsing" /\ pc' = "failed") => ChildIds(chapters, <<>>) = <<>>
     /\ (pc = "parsing" /\ Extracted') => ChildIds(chapters', <<>>) # <<>>]_vars

C16_Witness == pc = "failed" /\ Nodes(chapters) = {} /\ fileType = "epub"

\* The render-time test of a content unit: pages for PDF, content for EPUB.
Renderable(unit) == IF fileType = "pdf" THEN HasPages(unit) ELSE HasContent(unit)

RenderableUnits(i) ==
  {k \in 1..Len(exportTasks[i].chapters) : Renderable(exportTasks[i].chapters[k])}

\* C19: a task with no renderable content unit at render time is skipped, no
\* file is written for it and the export still ends normally, and every other
\* task of the same export gets its file.
C19_EmptyTaskSkipped ==
  Exported =>
    \A i \in 1..Len(exportTasks) :
      IF RenderableUnits(i) = {}
        THEN FilesOfTask(i) = {}
        ELSE Cardinality(FilesOfTask(i)) = 1

\* The ordinal i as two decimal digits.
TwoDigits(i) == <<DigitChars[(i \div 10) + 1], DigitChars[(i % 10) + 1]>>

\* C20: the i-th task (0-based) gets the ordinal i + 1 padded to two digits,
\* and tasks are emitted in pre-order of their owning nodes, so ordinals
\* increase in document order and skip no number at planning time.
C20_OrdinalsFollowDocumentOrder ==
  Exported =>
    /\ \A i, j \in 1..Len(exportTasks) :
         i < j => DocBefore(exportTasks[i].chapterId, exportTasks[j].chapterId)
    /\ \A i \in 1..Len(exportTasks) :
         SubSeq(buildHierarchicalFilename(i - 1, exportTasks[i].parentTitles,
                                          exportTasks[i].name), 1, 3)
           = TwoDigits(i) \o <<"_">>
    /\ \A k \in 1..Len(outputs.files) :
         \E i \in 1..Len(exportTasks) :
           /\ k \in FilesOfTask(i)
           /\ SubSeq(outputs.files[k].filename, 1, 3) = TwoDigits(i) \o <<"_">>
    /\ \A k, l \in 1..Len(outputs.files) :
         k < l => \A i \in 1..Len(exportTasks), j \in 1..Len(exportTasks) :
                    (k \in FilesOfTask(i) /\ l \in FilesOfTask(j)) => i < j

C20_Witness ==
  /\ Exported /\ Len(exportTasks) >= 3 /\ Len(outputs.files) >= 3
  /\ \E i \in 1..Len(exportTasks) :
       /\ hasChildren(chapters, exportTasks[i].chapterId)
       /\ Len(exportTasks[i].chapterId) = 2

----------------------------------------------------------------------------
\* Properties of EPUB content loading.

\* C14: during one extractEpubChapters call each distinct resource path is
\* read from the archive once, however many leaves refer to it and also when
\* leaves sharing a path are loaded in the same batch.
C14_EachPathReadOnce ==
  /\ \A p \in Paths : fileReads[p] <= 1
  /\ pc = "loaded" =>
       \A k \in 1..Len(leafHrefs) :
         leafHrefs[k] \in zipFiles => fileReads[leafHrefs[k]] = 1

IsItemCall(call) == ~call.forced

\* The onProgress calls other than the forced call at the end of each batch.
ItemCalls == SelectSeq(progressCalls, IsItemCall)

\* C15: progress callbacks are throttled: apart from the one forced callback
\* at the end of each batch, two consecutive onProgress calls are at least
\* 100 ms apart.
C15_ProgressThrottled ==
  \A k \in 1..(Len(ItemCalls) - 1) :
    ItemCalls[k + 1].at - ItemCalls[k].at >= updateInterval

----------------------------------------------------------------------------
\* Properties of the App component.

\* C17: at most one extraction or export is in flight at any time, whatever
\* the user does (select a file, replace it with the '更换' button, export).
C17_OneOperationInFlight == Len(inFlight) <= 1

\* C18: a failed extraction stores no chapters and sets the error; a failed
\* export leaves the chapter tree, the file and the selection as they are
\* and ends with isProcessing false, so the export can be tried again
\* without parsing the file again.
C18_FailureKeepsTree ==
  [][/\ (\E k \in 1..MaxInFlight : ExtractionThrows(k)) =>
          /\ chapters' = chapters
          /\ error' # NoError
          /\ ~isProcessing'
     /\ (\E k \in 1..MaxInFlight : ExportThrows(k)) =>
          /\ chapters' = chapters
          /\ file' = file /\ pc' = pc
          /\ selectedChapters' = selectedChapters
          /\ error' # NoError
          /\ ~isProcessing']_vars

C18_Witness ==
  /\ error = ExportError /\ ~isProcessing /\ inFlight = <<>>
  /\ pc = "ready" /\ file # 0
  /\ chapters = ExtractedChapters(file)
  /\ selectedChapters # {}

----------------------------------------------------------------------------
\* Properties of the planner, the loader and the app, continued.

\* The '_intro' units of the PDF export: pairs <<task index, unit index>>.
IntroUnits ==
  {u \in (1..Len(exportTasks)) \X (1..MaxNodes + 1) :
     /\ u[2] <= Len(exportTasks[u[1]].chapters)
     /\ exportTasks[u[1]].chapters[u[2]].intro}

\* C21 as stated: the '_intro' unit emitted for a PDF parent shares no page
\* with the resolved range of any descendant of that parent, selected or not.
C21_IntroDisjointFromDescendants ==
  (Exported /\ fileType = "pdf") =>
    \A u \in IntroUnits :
      LET unit == exportTasks[u[1]].chapters[u[2]] IN
      \A q \in AllIds :
        IsDescendant(q, unit.id) =>
          PageSet(unit) \cap PageSet(chapters[q]) = {}

----------------------------------------------------------------------------
\* EPUB navigation source selection (extractEpubChapters, lines 273-297).

\* The entry positions of the navigation documents: no entry, one entry, two
\* top-level entries, an entry with a child.
TocShapes == {{}, {<<0>>}, {<<0>>, <<1>>}, {<<0>>, <<0, 0>>}}

\* A nav document (the link text of each li) and an NCX document (the navLabel
\* text of each navPoint) with entries at the positions of shape; a document
\* that is missing, or has no nav / navMap / list, has no entry.
NavDocument(shape) == [p \in shape |-> TitleOf(p)]
NcxDocument(shape) == [p \in shape |-> TitleOf(p) \o <<"'">>]

\* parseContentOpf's result with the documents the hrefs lead to.
Packages ==
  {[navHref |-> nav # {}, ncxHref |-> ncx # {},
    navDoc |-> IF nav = {} THEN <<>> ELSE NavDocument(CHOOSE shape \in nav : TRUE),
    ncxDoc |-> IF ncx = {} THEN <<>> ELSE NcxDocument(CHOOSE shape \in ncx : TRUE)] :
     nav \in {{}} \cup {{shape} : shape \in TocShapes},
     ncx \in {{}} \cup {{shape} : shape \in TocShapes}}

\* parseNav: one chapter per li with a link, titled by the link text.
parseNav(doc) == [p \in DOMAIN doc |-> [NewEpubChapter(p) EXCEPT !.title = doc[p]]]

\* parseNcx: one chapter per navPoint, titled by its navLabel text.
parseNcx(doc) == [p \in DOMAIN doc |-> [NewEpubChapter(p) EXCEPT !.title = doc[p]]]

\* extractEpubChapters has read container.xml and content.opf.
InitNav ==
  /\ pc = "openEpub"
  /\ file = 2
  /\ fileType = FileTypeOf(file)
  /\ totalPages = 0
  /\ chapters = NoChapters
  /\ ListReset
  /\ isProcessing = TRUE
  /\ error = NoError
  /\ inFlight = <<Extraction(file)>>
  /\ LoaderIdle
  /\ package \in Packages
  /\ parserCalls = <<>>
  /\ resource = <<>>
  /\ fragments = <<>>

navUnchanged ==
  /\ UNCHANGED <<fileType, totalPages, package, resource, fragments>>
  /\ uiUnchanged /\ exportUnchanged /\ appUnchanged
  /\ UNCHANGED <<leafHrefs, zipFiles, batchIndex, taskState, fileCache, fileReads,
                 leafContent, now, lastUpdateTime, progressCalls>>

\* if (navHref) chapters = await parseNav(zip, navPath)  (lines 284-287)
ParseNavDocument ==
  /\ pc = "openEpub"
  /\ IF package.navHref
       THEN /\ chapters' = parseNav(package.navDoc)
            /\ parserCalls' = Append(parserCalls, "parseNav")
       ELSE UNCHANGED <<chapters, parserCalls>>
  /\ pc' = "navDone"
  /\ navUnchanged

needsNcxWheneverPresent(T, pkg) == pkg.ncxHref

\* chapters.length === 0 && ncxHref  (line 290)
needsNcx(T, pkg) == Nodes(T) = {} /\ pkg.ncxHref

\* if (chapters.length === 0 && ncxHref) chapters = await parseNcx(zip, ncxPath)
\* (lines 290-293); the check of line 295 and the content loading follow.
ParseNcxDocument ==
  /\ pc = "navDone"
  /\ IF needsNcx(chapters, package)
       THEN /\ chapters' = parseNcx(package.ncxDoc)
            /\ parserCalls' = Append(parserCalls, "parseNcx")
       ELSE UNCHANGED <<chapters, parserCalls>>
  /\ pc' = "parsing"
  /\ navUnchanged

NextNav ==
  \/ ParseNavDocument
  \/ ParseNcxDocument
  \/ ExtractNoOutline
  \/ \E loaded \in SUBSET Nodes(chapters) : LoadEpubContent(loaded)

SpecNav == InitNav /\ [][NextNav]_vars

\* The chapters each document yields (none when the manifest does not name it).
NavEntries == IF package.navHref THEN parseNav(package.navDoc) ELSE NoChapters
NcxEntries == IF package.ncxHref THEN parseNcx(package.ncxDoc) ELSE NoChapters

\* The tree as the navigation documents gave it, before content is loaded.
TocOf(T) == [p \in Nodes(T) |-> [T[p] EXCEPT !.content = <<>>]]

\* C22: the nav document's entries are the tree when it yields at least one;
\* the NCX is parsed only when the nav document is absent or yields nothing,
\* and then its entries are the tree; extraction fails exactly when neither
\* document yields an entry.
C22_NavPreferredOverNcx ==
  pc \in {"parsing", "ready", "failed"} =>
    /\ Nodes(NavEntries) # {} =>
         /\ TocOf(chapters) = NavEntries
         /\ parserCalls = <<"parseNav">>
    /\ "parseNcx" \in SeqToSet(parserCalls) =>
         /\ Nodes(NavEntries) = {}
         /\ TocOf(chapters) = NcxEntries
    /\ (Nodes(NavEntries) = {} /\ package.ncxHref) =>
         "parseNcx" \in SeqToSet(parserCalls)
    /\ pc = "failed" => (Nodes(NavEntries) = {} /\ Nodes(NcxEntries) = {})
    /\ pc = "ready" => (Nodes(NavEntries) # {} \/ Nodes(NcxEntries) # {})

\* Both documents have entries and the tree was returned.
C22_Witness ==
  /\ pc = "ready"
  /\ Nodes(NavEntries) # {} /\ Nodes(NcxEntries) # {}
  /\ DOMAIN package.navDoc # DOMAIN package.ncxDoc

----------------------------------------------------------------------------
\* Fragment extraction (epubProcessor.ts extractContentByAnchor, lines 74-129).

MaxElements == 3

\* The body of a content document in document order: each element has a tag,
\* an id ("" for none) and a depth, 0 for a child of body and 1 for a child of
\* the nearest preceding section.
Tags == {"h1", "h2", "p", "section"}
AnchorIds == {"a", "b"}
Element(tag, id, depth) == [tag |-> tag, id |-> id, depth |-> depth]
Elements == {Element(tag, id, depth) : tag \in Tags, id \in AnchorIds \cup {""}, depth \in {0, 1}}

\* A well-formed body: a nested element follows its section or another nested
\* element, and no id is used twice.
WellFormed(r) ==
  /\ \A i \in 1..Len(r) :
        r[i].depth = 1 =>
          /\ i > 1
          /\ r[i - 1].depth = 1 \/ r[i - 1].tag = "section"
  /\ \A i, j \in 1..Len(r) : (r[i].id # "" /\ r[i].id = r[j].id) => i = j

Resources ==
  {r \in UNION {[1..n -> Elements] : n \in 1..MaxElements} : WellFormed(r)}

\* doc.getElementById(anchorId): the index of the element, 0 for null.
getElementById(r, id) ==
  IF \E i \in 1..Len(r) : r[i].id = id
    THEN CHOOSE i \in 1..Len(r) : r[i].id = id
    ELSE 0

\* The element i with everything nested in it: what cloneNode(true) copies.
Subtree(r, i) ==
  {j \in i..Len(r) : \A k \in (i + 1)..j : r[k].depth > r[i].depth}

\* element.nextElementSibling: the index of the sibling, 0 for null.
nextElementSibling(r, i) ==
  LET after == {j \in (i + 1)..Len(r) : r[j].depth <= r[i].depth} IN
  IF after = {} THEN 0
  ELSE IF r[Min(after)].depth = r[i].depth THEN Min(after)
  ELSE 0

\* siblingTagName.match(/^h[1-6]$/)
IsHeading(tag) == tag \in {"h1", "h2"}

\* parseInt(tagName.substring(1)) || 999
headingLevel(tag) == IF tag = "h1" THEN 1 ELSE IF tag = "h2" THEN 2 ELSE 999

RECURSIVE followingSiblings(_, _, _)
\* The while loop of lines 100-113 from sibling on: the siblings appended to
\* the container, up to the first heading of level <= targetLevel.
followingSiblings(r, sibling, targetLevel) ==
  IF sibling = 0 THEN <<>>
  ELSE IF IsHeading(r[sibling].tag) /\ headingLevel(r[sibling].tag) <= targetLevel
    THEN <<>>
  ELSE <<sibling>> \o followingSiblings(r, nextElementSibling(r, sibling), targetLevel)

\* extractContentByAnchor(html, anchor): the whole document when the anchor is
\* not found, else the elements appended to the container, in order.
extractContentByAnchor(r, id) ==
  LET targetElement == getElementById(r, id) IN
  IF targetElement = 0
    THEN [whole |-> TRUE, container |-> <<>>]
  ELSE IF r[targetElement].tag = "section"
    THEN [whole |-> FALSE, container |-> <<targetElement>>]
  ELSE [whole |-> FALSE,
        container |-> <<targetElement>>
                        \o followingSiblings(r, nextElementSibling(r, targetElement),
                                              headingLevel(r[targetElement].tag))]

\* A content document has been read and no fragment extracted from it yet.
InitAnchors ==
  /\ pc = "anchors"
  /\ file = 2
  /\ fileType = FileTypeOf(file)
  /\ totalPages = 0
  /\ chapters = NoChapters
  /\ ListReset
  /\ isProcessing = TRUE
  /\ error = NoError
  /\ inFlight = <<Extraction(file)>>
  /\ LoaderIdle
  /\ package = NoPackage
  /\ parserCalls = <<>>
  /\ resource \in Resources
  /\ fragments = <<>>

\* chapter.content = extractContentByAnchor(fullContent, chapter.anchor) for a
\* leaf whose anchor is '#' + id.
ExtractContentByAnchor(id) ==
  /\ pc = "anchors"
  /\ id \notin DOMAIN fragments
  /\ fragments' = [a \in DOMAIN fragments \cup {id} |->
                     IF a = id THEN extractContentByAnchor(resource, id)
                     ELSE fragments[a]]
  /\ UNCHANGED <<pc, fileType, totalPages, chapters, package, parserCalls, resource>>
  /\ uiUnchanged /\ exportUnchanged /\ appUnchanged
  /\ UNCHANGED <<leafHrefs, zipFiles, batchIndex, taskState, fileCache, fileReads,
                 leafContent, now, lastUpdateTime, progressCalls>>

NextAnchors == \E id \in AnchorIds : ExtractContentByAnchor(id)

SpecAnchors == InitAnchors /\ [][NextAnchors]_vars

\* The elements of the body a fragment holds a copy of.
FragmentElements(frag) ==
  IF frag.whole THEN 1..Len(resource)
  ELSE UNION {Subtree(resource, frag.container[k]) : k \in 1..Len(frag.container)}

\* Both anchors are in the document and both fragments have been extracted.
BothExtracted ==
  /\ pc = "anchors"
  /\ DOMAIN fragments = AnchorIds
  /\ \A id \in AnchorIds : getElementById(resource, id) # 0

\* C23 as stated: the fragments of two distinct anchors of one resource are
\* distinct and no element of the body is in both.
C23_FragmentsDisjoint ==
  BothExtracted =>
    /\ fragments["a"] # fragments["b"]
    /\ FragmentElements(fragments["a"]) \cap FragmentElements(fragments["b"]) = {}

----------------------------------------------------------------------------
\* EPUB content loading with more than one batch.

\* The leaves beyond the first batch.
ExtraLeaves == 2

\* Books whose first batch is full: the leaves of the first batch share one
\* resource, those of the second batch refer to any resource.
BatchedHrefs ==
  UNION {{[k \in 1..(batchSize + n) |-> IF k <= batchSize THEN "a.xhtml" ELSE rest[k - batchSize]] :
            rest \in [1..n -> Paths]} : n \in 1..ExtraLeaves}

InitBatches ==
  /\ pc = "loadStart"
  /\ file = 2
  /\ fileType = FileTypeOf(file)
  /\ totalPages = 0
  /\ chapters = NoChapters
  /\ ListReset
  /\ isProcessing = TRUE
  /\ error = NoError
  /\ inFlight = <<Extraction(file)>>
  /\ leafHrefs \in BatchedHrefs
  /\ zipFiles \in SUBSET Paths
  /\ batchIndex = 0
  /\ taskState = [k \in 1..Len(leafHrefs) |-> "idle"]
  /\ fileCache = {}
  /\ fileReads = [p \in Paths |-> 0]
  /\ leafContent = {}
  /\ now = 0
  /\ lastUpdateTime = 0
  /\ progressCalls = <<>>
  /\ DocumentsUnread

\* The loader with reads that resolve at once.
NextBatches ==
  \/ StartBatch
  \/ \E k \in 1..Len(leafHrefs) : ReadDone(k, 0)
  \/ FinishBatch
  \/ ReturnEpubChapters

SpecEpubBatches == InitBatches /\ [][NextBatches]_vars

\* The number of the batch leaf k belongs to, from 0.
BatchOf(k) == (k - 1) \div batchSize

\* The leaves whose callback has begun and not ended.
Loading == {k \in 1..Len(leafHrefs) : taskState[k] = "reading"}

\* C24: a leaf's callback begins only when every leaf of the batches before
\* its own has finished, and at most batchSize leaves are loading at a time.
C24_BatchesAreSequential ==
  /\ \A k, j \in 1..Len(leafHrefs) :
        (taskState[k] # "idle" /\ BatchOf(j) < BatchOf(k)) => taskState[j] = "done"
  /\ Cardinality(Loading) <= batchSize
  /\ \A k, j \in Loading : BatchOf(k) = BatchOf(j)

\* A full first batch has been loaded with all its reads in flight at once,
\* and a leaf of the second batch is being read.
C24_Witness ==
  /\ fileReads["a.xhtml"] = batchSize
  /\ \E k \in Loading : BatchOf(k) = 1

----------------------------------------------------------------------------
\* Planning and rendering, continued.

\* C25 as stated: an export of a non-empty selection plans at least one task.
C25_SelectionYieldsTask ==
  (Exported /\ selectedChapters # {}) => Len(exportTasks) > 0

\* The content units of the i-th task that have pages.
PdfUnits(i) == {k \in 1..Len(exportTasks[i].chapters) : HasPages(exportTasks[i].chapters[k])}

\* C26 as stated: the page ranges of the content units of one PDF export task
\* are pairwise disjoint.
C26_UnitsOfTaskDisjoint ==
  (Exported /\ fileType = "pdf") =>
    \A i \in 1..Len(exportTasks) :
      \A k, m \in PdfUnits(i) :
        k # m => PageSet(exportTasks[i].chapters[k])
                   \cap PageSet(exportTasks[i].chapters[m]) = {}

\* C27 as stated: 'current' never decreases from one onProgress call to the
\* next, and the last call of a finished load reports current = total.
C27_ProgressMonotone ==
  /\ \A i \in 1..(Len(progressCalls) - 1) :
        progressCalls[i].current <= progressCalls[i + 1].current
  /\ pc = "loaded" =>
        /\ progressCalls # <<>>
        /\ progressCalls[Len(progressCalls)].current = Len(leafHrefs)

\* C28 as stated: every merge-flagged id is a node with children and a
\* selected descendant, the condition under which its merge button is shown.
C28_MergeFlagsHaveSelectedDescendant ==
  Listed =>
    \A id \in mergedChapters :
      /\ id \in Nodes(chapters)
      /\ hasSelectedChildren(chapters, selectedChapters, id)

----------------------------------------------------------------------------
\* Properties of the App component, continued.

\* C29 as stated: whenever a file is selected and there are chapters, the
\* chapters are the ones extracted from that file.
C29_ChaptersBelongToFile ==
  (file # 0 /\ Nodes(chapters) # {}) => chapters = ExtractedChapters(file)

\* A call in flight settles: its promise is fulfilled or rejected and the
\* rest of its handler runs.
Settles ==
  \E k \in 1..MaxInFlight :
    ExtractionReturns(k) \/ ExtractionThrows(k) \/ ExportReturns(k) \/ ExportThrows(k)

\* The App component when every pending promise settles in the end.
SpecAppFair == SpecApp /\ WF_vars(Settles)

\* C30 as stated: a call that has started is followed by a state with
\* isProcessing false, the step that ends a call, by returning or by throwing,
\* leaves isProcessing false, and isProcessing is true in every state in which
\* a call is still in flight.
C30_ProcessingCoversOperations ==
  /\ (inFlight # <<>>) ~> ~isProcessing
  /\ [][Len(inFlight') < Len(inFlight) => ~isProcessing']_vars
  /\ [](inFlight # <<>> => isProcessing)

====
